---- MODULE Spec2Model ----
(***************************************************************************)
(* Model of steam/user.py: the id64 cache (one sqlite table shared by all  *)
(* profile instances) and the profile accessor built on it.               *)
(*                                                                         *)
(* Python strings that the code inspects character by character (sid, the *)
(* legacy XML body, the extracted id text) are sequences of one-character *)
(* strings.  The two HTTP endpoints are external: every response they may  *)
(* give is an input drawn from a bounded set.                              *)
(***************************************************************************)
EXTENDS Integers, Sequences, FiniteSets, TLC

\* ------------------------------------------------------------------ bounds
NumInst == 2
MaxCalls == 2
MaxCacheCalls == 3
MaxAccCalls == 2
MaxConcCalls == 3
MaxDocLen == 3

Inst == 1..NumInst

\* ------------------------------------------------------- python strings
Digits == {"0", "1", "2", "3", "4", "5", "6", "7", "8", "9"}

\* str.isdigit(): non-empty and every character a digit
IsDigit(s) == Len(s) > 0 /\ \A k \in 1..Len(s) : s[k] \in Digits

Min2(a, b) == IF a < b THEN a ELSE b
Max2(a, b) == IF a > b THEN a ELSE b

\* needle n occurs in h at 0-based offset p
MatchAt(h, n, p) ==
    /\ p + Len(n) <= Len(h)
    /\ \A k \in 1..Len(n) : h[p + k] = n[k]

\* str.find(): lowest 0-based offset of n in h, or -1
Find(h, n) ==
    LET hits == {p \in 0..(Len(h) - Len(n)) : MatchAt(h, n, p)}
    IN IF hits = {} THEN -1
       ELSE CHOOSE p \in hits : \A q \in hits : p <= q

\* s[a:b] for a >= 0 and any b (a negative b counts from the end)
Slice(s, a, b) ==
    LET lo == Min2(a, Len(s))
        hi == IF b < 0 THEN Max2(Len(s) + b, 0) ELSE Min2(b, Len(s))
    IN IF lo >= hi THEN <<>> ELSE SubSeq(s, lo + 1, hi)

RECURSIVE Flatten(_)
Flatten(ss) == IF ss = <<>> THEN <<>> ELSE Head(ss) \o Flatten(Tail(ss))

RECURSIVE SeqsUpTo(_, _)
SeqsUpTo(S, n) ==
    IF n = 0 THEN {<<>>}
    ELSE LET shorter == SeqsUpTo(S, n - 1)
         IN shorter \cup {Append(s, x) : s \in {t \in shorter : Len(t) = n - 1}, x \in S}

\* ----------------------------------------------------- legacy endpoint
OpenTag == <<"<", "s", "t", "e", "a", "m", "I", "D", "6", "4", ">">>
CloseTag == <<"<", "/", "s", "t", "e", "a", "m", "I", "D", "6", "4", ">">>
OpenTagLen == 11

\* prof.find("<steamID64>") != -1
HasId64Elem(prof) == Find(prof, OpenTag) # -1

\* prof[prof.find("<steamID64>")+11 : prof.find("</steamID64>")]
ExtractId64(prof) ==
    Slice(prof, Find(prof, OpenTag) + OpenTagLen, Find(prof, CloseTag))

\* the pieces a legacy response body is assembled from
DocTokens == {OpenTag, CloseTag, <<"1">>, <<"2">>, <<"x">>}
Docs == {Flatten(ts) : ts \in SeqsUpTo(DocTokens, MaxDocLen)}

\* What lines 60-62 read off a body: whether it has the element, and the
\* text cut out of it when it has.
Reading(d) ==
    IF HasId64Elem(d) THEN [err |-> FALSE, elem |-> TRUE, prof |-> ExtractId64(d)]
    ELSE [err |-> FALSE, elem |-> FALSE, prof |-> <<>>]

\* urllib2.urlopen(...).read(): a network failure, or a body, held as its
\* reading (the code uses a body in no other way)
NetworkError == [err |-> TRUE, elem |-> FALSE, prof |-> <<>>]
LegacyResps == {NetworkError} \cup {Reading(d) : d \in Docs}

\* ------------------------------------------------------- the sid inputs
\* the empty string, a digit string, a vanity name, a name with a digit
Sids == {<<>>, <<"7">>, <<"a">>, <<"a", "7">>}

\* ------------------------------------------------ the sqlite cache table
\* A row of "cache (sid TEXT, id64 INTEGER PRIMARY KEY)"; sid NULL is
\* hasSid = FALSE.  The table is the sequence of its rows in rowid (id64)
\* order.
NullRow(id) == [id64 |-> id, hasSid |-> FALSE, sid |-> <<>>]

DigitVal(c) ==
    CASE c = "0" -> 0 [] c = "1" -> 1 [] c = "2" -> 2 [] c = "3" -> 3
      [] c = "4" -> 4 [] c = "5" -> 5 [] c = "6" -> 6 [] c = "7" -> 7
      [] c = "8" -> 8 [] c = "9" -> 9

\* A TEXT value bound to the INTEGER PRIMARY KEY column converts when it
\* is an integer literal; anything else is "datatype mismatch".
IsIntText(s) == IsDigit(s)

RECURSIVE ToInt(_)
ToInt(s) ==
    IF s = <<>> THEN 0
    ELSE 10 * ToInt(SubSeq(s, 1, Len(s) - 1)) + DigitVal(s[Len(s)])

DigitChar(d) == CHOOSE c \in Digits : DigitVal(c) = d

\* str(n) for n >= 0
RECURSIVE IntToStr(_)
IntToStr(n) ==
    IF n < 10 THEN <<DigitChar(n)>>
    ELSE Append(IntToStr(n \div 10), DigitChar(n % 10))

\* insert a row keeping rowid order (after any rows with the same id64)
InsertSorted(t, row) ==
    LET k == Cardinality({j \in 1..Len(t) : t[j].id64 <= row.id64})
    IN SubSeq(t, 1, k) \o <<row>> \o SubSeq(t, k + 1, Len(t))

\* INSERT INTO cache (id64) VALUES (?) with no conflict handling
InsertAlways(t, id) == InsertSorted(t, NullRow(id))

\* INSERT OR IGNORE INTO cache (id64) VALUES (?)
InsertOrIgnore(t, id) ==
    IF \E k \in 1..Len(t) : t[k].id64 = id THEN t
    ELSE InsertSorted(t, NullRow(id))

\* an UPDATE that matches no row
UpdateSidNoop(t, sid, id) == t

\* UPDATE cache SET sid=? WHERE id64=?
RECURSIVE UpdateSid(_, _, _)
UpdateSid(t, sid, id) ==
    IF t = <<>> THEN <<>>
    ELSE <<IF Head(t).id64 = id
           THEN [Head(t) EXCEPT !.hasSid = TRUE, !.sid = sid]
           ELSE Head(t)>> \o UpdateSid(Tail(t), sid, id)

\* SELECT id64 FROM cache WHERE sid=? : the matching rows' positions
SelectBySid(t, sid) == {k \in 1..Len(t) : t[k].hasSid /\ t[k].sid = sid}

\* .fetchone(): the first matching row in rowid order
FetchOne(t, ks) == t[CHOOSE k \in ks : \A j \in ks : k <= j].id64

\* the two statements of the cache write, in order
StoreRow(t, sid, id) == UpdateSid(InsertOrIgnore(t, id), sid, id)

\* CREATE TABLE that replaces an existing table
CreateAlways(exists, t) == <<>>

\* CREATE TABLE IF NOT EXISTS cache (...)
CreateIfNotExists(exists, t) == IF exists THEN t ELSE <<>>

\* ------------------------------------------- get_id64_from_sid, as a function
\* What get_id64_from_sid returns: None, a str (the sid itself or the text
\* cut out of the XML) or an int (the id64 column of the cached row).
RetNone == [t |-> "none", s |-> <<>>, i |-> 0]
RetStr(x) == [t |-> "str", s |-> x, i |-> 0]
RetInt(n) == [t |-> "int", s |-> <<>>, i |-> n]

\* "not id64" in get_summary
Falsy(r) ==
    \/ r.t = "none"
    \/ r.t = "int" /\ r.i = 0
    \/ r.t = "str" /\ r.s = <<>>

\* str(id64)
StrOf(r) == IF r.t = "int" THEN IntToStr(r.i) ELSE r.s

\* One call on committed table t.  resp is the legacy endpoint's answer,
\* read only when the call gets as far as the request.  The result names
\* the value returned or the exception raised, the table afterwards, and
\* what the call touched.
Outcome(ret, exc, t, reads, writes, legacy, elem) ==
    [ret |-> ret, exc |-> exc, table |-> t, reads |-> reads,
     writes |-> writes, legacy |-> legacy, elem |-> elem]

\* the cache write and return of lines 61-69
StoreAndReturn(t, sid, prof) ==
    IF ~IsIntText(prof)
    THEN Outcome(RetNone, "IntegrityError", t, 1, 0, 1, TRUE)
    ELSE Outcome(RetStr(prof), "", StoreRow(t, sid, ToInt(prof)), 1, 1, 1, TRUE)

\* lines 51-69: the cache lookup, then the legacy request and the write
CacheOrLegacy(t, sid, isStr, resp) ==
    LET ks == SelectBySid(t, sid)
    IN IF ks # {} THEN Outcome(RetInt(FetchOne(t, ks)), "", t, 1, 0, 0, FALSE)
       ELSE IF resp.err THEN Outcome(RetNone, "URLError", t, 1, 0, 1, FALSE)
       ELSE IF isStr /\ resp.elem
            THEN StoreAndReturn(t, sid, resp.prof)
       ELSE Outcome(RetNone, "", t, 1, 0, 1, resp.elem)

\* the digit test of line 49 left out
ResolveSkipDigitTest(t, sid, isStr, resp) == CacheOrLegacy(t, sid, isStr, resp)

get_id64_from_sid(t, sid, isStr, resp) ==
    IF IsDigit(sid) THEN Outcome(RetStr(sid), "", t, 0, 0, 0, FALSE)
    ELSE CacheOrLegacy(t, sid, isStr, resp)

\* whether a call with this sid reaches the legacy request
ReachesLegacy(t, sid) == ~IsDigit(sid) /\ SelectBySid(t, sid) = {}

\* the responses to choose from for a call on table t
LegacyChoices(t, sid) == IF ReachesLegacy(t, sid) THEN LegacyResps ELSE {NetworkError}

\* ------------------------------------------------------ summary objects
\* A value held in a summary dict, or returned by an accessor.
VInt(n) == [t |-> "int", i |-> n, s |-> ""]
VStr(x) == [t |-> "str", i |-> 0, s |-> x]
VNone == [t |-> "none", i |-> 0, s |-> ""]
VFalse == [t |-> "bool", i |-> 0, s |-> ""]
VTime(n) == [t |-> "time", i |-> n, s |-> ""]
VDict == [t |-> "dict", i |-> 0, s |-> ""]
VSummary == [t |-> "summary", i |-> 0, s |-> ""]
Absent == [t |-> "absent", i |-> 0, s |-> ""]

\* v == n for an int n
EqInt(v, n) == v.t = "int" /\ v.i = n
\* v == "x"
EqStr(v, x) == v.t = "str" /\ v.s = x
\* truth value of v
Truthy(v) ==
    CASE v.t = "int" -> v.i # 0
      [] v.t = "str" -> v.s # ""
      [] v.t = "none" -> FALSE
      [] v.t = "bool" -> v.i # 0
      [] OTHER -> TRUE

GameFields == {"gameid", "gameserverip", "gameextrainfo"}
LocFields == {"loccountrycode", "locstatecode"}
AvatarSizes == {"avatar", "avatarmedium", "avatarfull"}
AllFields ==
    {"steamid", "personaname", "profileurl", "personastate",
     "communityvisibilitystate", "profilestate", "lastlogoff",
     "commentpermission", "realname", "primaryclanid", "timecreated"}
        \cup AvatarSizes \cup GameFields \cup LocFields

\* A summary dict: the keys it has, and the values of the two fields the
\* code compares (Absent without the key).
Dict(keys, vis, status) ==
    [keys |-> keys,
     vis |-> IF "communityvisibilitystate" \in keys THEN vis ELSE Absent,
     status |-> IF "personastate" \in keys THEN status ELSE Absent]

\* d[f], Absent for a key the dict lacks.  Fields the code only passes
\* through hold a string named after them.
Field(d, f) ==
    IF f \notin d.keys THEN Absent
    ELSE IF f = "communityvisibilitystate" THEN d.vis
    ELSE IF f = "personastate" THEN d.status
    ELSE IF f \in {"lastlogoff", "timecreated"} THEN VInt(1000)
    ELSE VStr(f)

EmptyDict == Dict({}, Absent, Absent)
\* "not self._summary_object" for a dict
EmptySummary(d) == d.keys = {}

\* what an accessor call does: return a value (a dict's items in items)
\* or raise
Ret(v) == [kind |-> "return", exc |-> "", msg |-> "", val |-> v, items |-> {}]
RetItems(it) == [kind |-> "return", exc |-> "", msg |-> "", val |-> VDict, items |-> it]
Raise(e, m) == [kind |-> "raise", exc |-> e, msg |-> m, val |-> VNone, items |-> {}]

\* an instance: whether _summary_object is set, the dict it then holds,
\* and whether get_summary or load_summary_file has run on it
Fresh == [loaded |-> FALSE, summary |-> EmptyDict, touched |-> FALSE]
Holding(d) == [loaded |-> TRUE, summary |-> d, touched |-> TRUE]
Touched(o) == [o EXCEPT !.touched = TRUE]

\* self._summary_object[k]
Subscript(o, k) ==
    IF ~o.loaded THEN Raise("AttributeError", "_summary_object")
    ELSE IF Field(o.summary, k) = Absent THEN Raise("KeyError", k)
    ELSE Ret(Field(o.summary, k))

\* self._summary_object.get(k, default)
GetOr(o, k, default) ==
    IF ~o.loaded THEN Raise("AttributeError", "_summary_object")
    ELSE IF Field(o.summary, k) = Absent THEN Ret(default)
    ELSE Ret(Field(o.summary, k))

\* time.localtime(v)
LocalTime(v) == IF v.t = "int" THEN Ret(VTime(v.i)) ELSE Raise("TypeError", "localtime")

get_summary_object(o) ==
    IF o.loaded THEN Ret(VSummary) ELSE Raise("ProfileError", "No summary")

get_status(o) ==
    LET r == Subscript(o, "personastate")
    IN IF r.kind = "raise" THEN r
       ELSE IF EqInt(r.val, 0) THEN Ret(VStr("offline"))
       ELSE IF EqInt(r.val, 1) THEN Ret(VStr("online"))
       ELSE IF EqInt(r.val, 2) THEN Ret(VStr("busy"))
       ELSE IF EqInt(r.val, 3) THEN Ret(VStr("away"))
       ELSE IF EqInt(r.val, 4) THEN Ret(VStr("snooze"))
       ELSE r

get_visibility(o) ==
    LET r == Subscript(o, "communityvisibilitystate")
    IN IF r.kind = "raise" THEN r
       ELSE IF EqInt(r.val, 1) THEN Ret(VStr("private"))
       ELSE IF EqInt(r.val, 2) THEN Ret(VStr("friends"))
       ELSE IF EqInt(r.val, 3) THEN Ret(VStr("public"))
       ELSE r

get_last_online(o) ==
    LET r == Subscript(o, "lastlogoff")
    IN IF r.kind = "raise" THEN r ELSE LocalTime(r.val)

get_creation_date(o) ==
    LET r == GetOr(o, "timecreated", VNone)
    IN IF r.kind = "raise" THEN r
       ELSE IF Truthy(r.val) THEN LocalTime(r.val)
       ELSE Ret(VNone)

\* ret[key] = summary[field] for each listed field the summary has
Collect(o, pairs) ==
    RetItems({p \in pairs : Field(o.summary, p.field) # Absent})

\* a projection that skips the visibility test
CollectAlways(o, pairs) ==
    IF ~o.loaded THEN Raise("AttributeError", "_summary_object")
    ELSE Collect(o, pairs)

\* the body shared by get_current_game and get_location
IfPublic(o, pairs) ==
    LET v == get_visibility(o)
    IN IF v.kind = "raise" THEN v
       ELSE IF EqStr(v.val, "public") THEN Collect(o, pairs)
       ELSE Ret(VNone)

GamePairs ==
    {[key |-> "id", field |-> "gameid"],
     [key |-> "server", field |-> "gameserverip"],
     [key |-> "extra", field |-> "gameextrainfo"]}
LocPairs ==
    {[key |-> "country", field |-> "loccountrycode"],
     [key |-> "state", field |-> "locstatecode"]}

get_current_game(o) == IfPublic(o, GamePairs)
get_location(o) == IfPublic(o, LocPairs)

AccessorNames ==
    {"get_summary_object", "get_id64", "get_persona", "get_profile_url",
     "get_avatar_url", "get_status", "get_visibility", "is_configured",
     "get_last_online", "is_comment_enabled", "get_real_name",
     "get_primary_group", "get_creation_date", "get_current_game",
     "get_location"}

\* the accessor called name, on instance state o (size: get_avatar_url's
\* argument)
Accessor(name, size, o) ==
    CASE name = "get_summary_object" -> get_summary_object(o)
      [] name = "get_id64" -> Subscript(o, "steamid")
      [] name = "get_persona" -> Subscript(o, "personaname")
      [] name = "get_profile_url" -> Subscript(o, "profileurl")
      [] name = "get_avatar_url" -> Subscript(o, size)
      [] name = "get_status" -> get_status(o)
      [] name = "get_visibility" -> get_visibility(o)
      [] name = "is_configured" -> GetOr(o, "profilestate", VFalse)
      [] name = "get_last_online" -> get_last_online(o)
      [] name = "is_comment_enabled" -> GetOr(o, "commentpermission", VFalse)
      [] name = "get_real_name" -> GetOr(o, "realname", VNone)
      [] name = "get_primary_group" -> GetOr(o, "primaryclanid", VNone)
      [] name = "get_creation_date" -> get_creation_date(o)
      [] name = "get_current_game" -> get_current_game(o)
      [] name = "get_location" -> get_location(o)

\* ----------------------------------------------------- summary endpoint
PublicSummary == Dict(AllFields, VInt(3), VInt(1))
PrivateSummary ==
    Dict({"steamid", "personaname", "personastate", "communityvisibilitystate",
          "gameid", "loccountrycode"}, VInt(1), VInt(0))
SampleSummaries == {EmptyDict, PublicSummary, PrivateSummary}

\* The summary endpoint's answer: a network failure, a body that is not
\* JSON, or a JSON object holding the first depth keys of the path
\* response / players / player, the last one a list.
SumDoc(depth, player) == [kind |-> "doc", depth |-> depth, player |-> player]
SummaryResps ==
    {[kind |-> "neterr", depth |-> 0, player |-> <<>>],
     [kind |-> "badjson", depth |-> 0, player |-> <<>>]}
        \cup {SumDoc(d, <<>>) : d \in 0..3}
        \cup {SumDoc(3, <<p>>) : p \in SampleSummaries}
        \cup {SumDoc(3, <<EmptyDict, PublicSummary>>)}
NoSummaryResp == [kind |-> "neterr", depth |-> 0, player |-> <<>>]

\* whether response.players.player[0] is absent or empty in the answer
PlayerAbsent(sresp) ==
    sresp.kind = "doc" /\ (sresp.depth < 3 \/ Len(sresp.player) = 0)
PlayerEmpty(sresp) ==
    sresp.kind = "doc" /\ sresp.depth = 3 /\ Len(sresp.player) > 0
        /\ EmptySummary(sresp.player[1])

\* json.loads(urlopen(...).read())["response"]["players"]["player"][0]
Walked(exc, msg, elem) == [exc |-> exc, msg |-> msg, elem |-> elem]
FetchPlayer0(sresp) ==
    IF sresp.kind = "neterr" THEN Walked("URLError", "", EmptyDict)
    ELSE IF sresp.kind = "badjson" THEN Walked("ValueError", "", EmptyDict)
    ELSE IF sresp.depth < 1 THEN Walked("KeyError", "response", EmptyDict)
    ELSE IF sresp.depth < 2 THEN Walked("KeyError", "players", EmptyDict)
    ELSE IF sresp.depth < 3 THEN Walked("KeyError", "player", EmptyDict)
    ELSE IF Len(sresp.player) = 0 THEN Walked("IndexError", "", EmptyDict)
    ELSE Walked("", "", sresp.player[1])

\* ------------------------------------------------- get_summary, as a function
\* One call on instance state o and table t: the inner get_id64_from_sid
\* call (res), the exception the call ends with (exc, msg; "" when it
\* returns), the instance afterwards, and the summary request it sent.
Fetched(res, exc, msg, o, made, id) ==
    [res |-> res, exc |-> exc, msg |-> msg, obj |-> o,
     sumReq |-> [made |-> made, id |-> id]]

\* lines 76-86, given the result res of line 74
SummaryAfter(res, o, sid, sresp) ==
    LET id64 == IF Falsy(res.ret) THEN sid ELSE StrOf(res.ret)
        w == FetchPlayer0(sresp)
    IN IF res.exc # "" THEN Fetched(res, res.exc, "", Touched(o), FALSE, <<>>)
       ELSE IF w.exc # "" THEN Fetched(res, w.exc, w.msg, Touched(o), TRUE, id64)
       ELSE IF EmptySummary(w.elem)
            THEN Fetched(res, "ProfileError", "Profile not found",
                         Holding(w.elem), TRUE, id64)
       ELSE Fetched(res, "", "", Holding(w.elem), TRUE, id64)

get_summary(t, o, sid, lresp, sresp) ==
    SummaryAfter(get_id64_from_sid(t, sid, TRUE, lresp), o, sid, sresp)

\* the summary responses to choose from: one stand-in when the call ends
\* before the summary request
SummaryChoices(t, sid, lresp) ==
    IF get_id64_from_sid(t, sid, TRUE, lresp).exc # "" THEN {NoSummaryResp}
    ELSE SummaryResps

\* ------------------------------------------------------------------ state
VARIABLES
    tableExists,  \* whether id64_cache.db holds the cache table
    table,        \* the committed rows of the cache table
    obj,          \* each profile instance
    last,         \* the latest call: what it was given, did and gave back
    resolved,     \* per sid, the id64 its latest successful resolution gave (-1: none)
    evicted,      \* sids whose row got another sid written since that resolution
    calls,        \* calls made so far
    budget,       \* calls the run may make
    pc,           \* concurrent runs: where each instance's get_id64_from_sid is
    cur,          \* concurrent runs: that call's sid and extracted text
    priv,         \* concurrent runs: the table as the instance's open transaction sees it
    writer,       \* concurrent runs: the instance holding the write lock (0: none)
    overlap       \* concurrent runs: whether the instance's latest lookup ran
                  \* between another instance's INSERT and UPDATE

conc == <<pc, cur, priv, writer, overlap>>
vars == <<tableExists, table, obj, last, resolved, evicted, calls, budget, conc>>

NoOut == Ret(VNone)

\* the record of a call; fields a call has no use for keep these values
Blank ==
    [op |-> "init", inst |-> 0, sid |-> <<>>, isStr |-> TRUE,
     resolve |-> FALSE, ret |-> RetNone, rexc |-> "", legacy |-> 0,
     reads |-> 0, writes |-> 0, elem |-> FALSE,
     prior |-> -1, priorEvicted |-> FALSE,
     exc |-> "", msg |-> "",
     gotBody |-> FALSE,
     sumMade |-> FALSE, sumId |-> <<>>, player |-> "na",
     loadedBefore |-> FALSE, touchedBefore |-> FALSE, given |-> EmptyDict,
     acc |-> "", out |-> NoOut]

\* the part of the record a get_id64_from_sid call fills in
WithResolve(rec, sid, isStr, res) ==
    [rec EXCEPT !.sid = sid, !.isStr = isStr, !.resolve = TRUE,
                !.ret = res.ret, !.rexc = res.exc, !.legacy = res.legacy,
                !.reads = res.reads, !.writes = res.writes, !.elem = res.elem,
                !.gotBody = (res.legacy = 1 /\ res.exc # "URLError"),
                !.prior = resolved[sid], !.priorEvicted = sid \in evicted]

\* the id64 a returned value stands for
CanonOf(ret) == IF ret.t = "int" THEN ret.i ELSE ToInt(ret.s)
Succeeded(res) == res.exc = "" /\ res.ret.t # "none"

\* bookkeeping of resolutions, for a call that may have resolved sid
Track(sid, res) ==
    IF IsDigit(sid) \/ ~Succeeded(res)
    THEN UNCHANGED <<resolved, evicted>>
    ELSE LET c == CanonOf(res.ret)
             lost == IF res.writes = 1
                     THEN {u \in Sids : u # sid /\ resolved[u] = c}
                     ELSE {}
         IN /\ resolved' = [resolved EXCEPT ![sid] = c]
            /\ evicted' = (evicted \cup lost) \ {sid}

\* what the summary answer holds at response.players.player[0], for a
\* call that sent the request and got JSON back
PlayerCase(made, sresp) ==
    IF ~made \/ sresp.kind # "doc" THEN "na"
    ELSE IF PlayerAbsent(sresp) THEN "absent"
    ELSE IF PlayerEmpty(sresp) THEN "empty"
    ELSE "ok"
Player0(sresp) ==
    IF sresp.kind = "doc" /\ ~PlayerAbsent(sresp) THEN sresp.player[1]
    ELSE EmptyDict

IdleConc ==
    /\ pc = [i \in Inst |-> "idle"]
    /\ cur = [i \in Inst |-> [sid |-> <<>>, prof |-> <<>>]]
    /\ priv = [i \in Inst |-> <<>>]
    /\ writer = 0
    /\ overlap = [i \in Inst |-> FALSE]

\* every instance constructed with no sid; the cache table exists, empty
Start(n) ==
    /\ tableExists = TRUE
    /\ table = <<>>
    /\ obj = [i \in Inst |-> Fresh]
    /\ last = Blank
    /\ resolved = [u \in Sids |-> -1]
    /\ evicted = {}
    /\ calls = 0
    /\ budget = n
    /\ IdleConc

Init == Start(MaxCalls)

Step ==
    /\ calls < budget
    /\ calls' = calls + 1
    /\ budget' = budget
    /\ UNCHANGED conc

\* p = profile(): __init__ with no sid, a new instance in place of the old
Construct(i) ==
    /\ Step
    /\ tableExists' = TRUE
    /\ table' = CreateIfNotExists(tableExists, table)
    /\ obj' = [obj EXCEPT ![i] = Fresh]
    /\ last' = [Blank EXCEPT !.op = "init", !.inst = i]
    /\ UNCHANGED <<resolved, evicted>>

\* p = profile(sid) with a sid: __init__ runs get_summary; when that
\* raises, no new instance comes back and the old one stays
ConstructWith(i, sid, lresp, sresp) ==
    /\ Step
    /\ sid # <<>>
    /\ \E f \in {get_summary(CreateIfNotExists(tableExists, table), Fresh,
                            sid, lresp, sresp)} :
          /\ tableExists' = TRUE
          /\ table' = f.res.table
          /\ obj' = [obj EXCEPT ![i] = IF f.exc = "" THEN f.obj ELSE @]
          /\ last' = [WithResolve(Blank, sid, TRUE, f.res) EXCEPT
                        !.op = "init_sid", !.inst = i,
                        !.exc = f.exc, !.msg = f.msg,
                        !.sumMade = f.sumReq.made, !.sumId = f.sumReq.id,
                        !.player = PlayerCase(f.sumReq.made, sresp),
                        !.given = Player0(sresp)]
          /\ Track(sid, f.res)

\* p.get_id64_from_sid(sid)
ResolveId64(i, sid, isStr, lresp) ==
    /\ Step
    /\ \E res \in {get_id64_from_sid(table, sid, isStr, lresp)} :
          /\ table' = res.table
          /\ last' = [WithResolve(Blank, sid, isStr, res) EXCEPT
                        !.op = "get_id64_from_sid", !.inst = i,
                        !.exc = res.exc,
                        !.loadedBefore = obj[i].loaded,
                        !.touchedBefore = obj[i].touched]
          /\ Track(sid, res)
    /\ UNCHANGED <<tableExists, obj>>

\* p.get_summary(sid)
GetSummary(i, sid, lresp, sresp) ==
    /\ Step
    /\ \E f \in {get_summary(table, obj[i], sid, lresp, sresp)} :
          /\ table' = f.res.table
          /\ obj' = [obj EXCEPT ![i] = f.obj]
          /\ last' = [WithResolve(Blank, sid, TRUE, f.res) EXCEPT
                        !.op = "get_summary", !.inst = i,
                        !.exc = f.exc, !.msg = f.msg,
                        !.sumMade = f.sumReq.made, !.sumId = f.sumReq.id,
                        !.player = PlayerCase(f.sumReq.made, sresp),
                        !.loadedBefore = obj[i].loaded,
                        !.touchedBefore = obj[i].touched,
                        !.given = Player0(sresp)]
          /\ Track(sid, f.res)
    /\ UNCHANGED tableExists

\* p.load_summary_file(f, pickled): either branch sets _summary_object to
\* the dict the file holds
load_summary_file(o, d, pickled) == IF pickled THEN Holding(d) ELSE Holding(d)

LoadSummaryFile(i, d, pickled) ==
    /\ Step
    /\ obj' = [obj EXCEPT ![i] = load_summary_file(obj[i], d, pickled)]
    /\ last' = [Blank EXCEPT !.op = "load_summary_file", !.inst = i,
                             !.loadedBefore = obj[i].loaded,
                             !.touchedBefore = obj[i].touched,
                             !.given = d]
    /\ UNCHANGED <<tableExists, table, resolved, evicted>>

\* a call of one accessor
CallAccessor(i, name, size) ==
    /\ Step
    /\ last' = [Blank EXCEPT !.op = "accessor", !.inst = i, !.acc = name,
                             !.loadedBefore = obj[i].loaded,
                             !.touchedBefore = obj[i].touched,
                             !.out = Accessor(name, size, obj[i])]
    /\ UNCHANGED <<tableExists, table, obj, resolved, evicted>>

Next ==
    \/ \E i \in Inst : Construct(i)
    \/ \E i \in Inst, sid \in Sids :
         \E lresp \in LegacyChoices(table, sid) :
           \E sresp \in SummaryChoices(table, sid, lresp) :
             ConstructWith(i, sid, lresp, sresp)
    \/ \E i \in Inst, sid \in Sids, isStr \in BOOLEAN :
         \E lresp \in LegacyChoices(table, sid) :
           ResolveId64(i, sid, isStr, lresp)
    \/ \E i \in Inst, sid \in Sids :
         \E lresp \in LegacyChoices(table, sid) :
           \E sresp \in SummaryChoices(table, sid, lresp) :
             GetSummary(i, sid, lresp, sresp)
    \/ \E i \in Inst, d \in SampleSummaries, pickled \in BOOLEAN :
         LoadSummaryFile(i, d, pickled)
    \/ \E i \in Inst, name \in AccessorNames, size \in AvatarSizes :
         CallAccessor(i, name, size)

Spec == Init /\ [][Next]_vars

\* ------------------------------------------------ the cache on its own
\* Instances that only construct and resolve: every ensureStore, lookup
\* and store there is, over a longer run.
InitCache == Start(MaxCacheCalls)

NextCache ==
    \/ \E i \in Inst : Construct(i)
    \/ \E i \in Inst, sid \in Sids, isStr \in BOOLEAN :
         \E lresp \in LegacyChoices(table, sid) :
           ResolveId64(i, sid, isStr, lresp)

SpecCache == InitCache /\ [][NextCache]_vars

\* ------------------------------------------------- the accessors on their own
\* One instance that loads summaries from files and reads them back, over
\* every combination of visibility value and optional field.
VisValues ==
    {VInt(0), VInt(1), VInt(2), VInt(3), VInt(4), VStr("3"), VStr("public")}
VisSummaries ==
    {Dict(k \cup {"steamid", "communityvisibilitystate"}, v, VInt(1)) :
        k \in SUBSET (GameFields \cup LocFields), v \in VisValues}
        \cup {Dict(k \cup {"steamid"}, Absent, VInt(1)) :
                k \in SUBSET (GameFields \cup LocFields)}

InitAcc == Start(MaxAccCalls)

NextAcc ==
    \/ \E d \in VisSummaries, pickled \in BOOLEAN : LoadSummaryFile(1, d, pickled)
    \/ \E name \in AccessorNames, size \in AvatarSizes : CallAccessor(1, name, size)

SpecAcc == InitAcc /\ [][NextAcc]_vars

\* ------------------------------------------------------ concurrent resolves
\* get_id64_from_sid statement by statement, the instances interleaved.
\* sqlite3 opens a transaction before the INSERT and holds the write lock
\* until conn.commit(); other connections read the committed table.

\* the committed table after a statement inside an open transaction
CommittedAutocommit(t, p) == p
Committed(t, p) == t

NoCall == [sid |-> <<>>, prof |-> <<>>]

\* instance i's call ends (it returns or raises): nothing of it is kept
Return(i) ==
    /\ pc' = [pc EXCEPT ![i] = "idle"]
    /\ cur' = [cur EXCEPT ![i] = NoCall]
    /\ overlap' = [overlap EXCEPT ![i] = FALSE]

Goto(i, v) == pc' = [pc EXCEPT ![i] = v]

\* lines 51-56: the SELECT on the committed table; a hit returns
CLookup(i, sid) ==
    /\ pc[i] = "idle"
    /\ calls < budget
    /\ calls' = calls + 1
    /\ ~IsDigit(sid)
    /\ IF SelectBySid(table, sid) # {}
       THEN Return(i)
       ELSE /\ Goto(i, "request")
            /\ cur' = [cur EXCEPT ![i] = [sid |-> sid, prof |-> <<>>]]
            /\ overlap' = [overlap EXCEPT
                             ![i] = \E j \in Inst : j # i /\ pc[j] = "inserted"]
    /\ UNCHANGED <<tableExists, table, obj, last, resolved, evicted, budget,
                   priv, writer>>

\* lines 58-62: the legacy request; a failed request raises, a body
\* without the element makes the call return None
CRequest(i, resp) ==
    /\ pc[i] = "request"
    /\ IF ~resp.err /\ resp.elem
       THEN /\ Goto(i, "insert")
            /\ cur' = [cur EXCEPT ![i].prof = resp.prof]
            /\ UNCHANGED overlap
       ELSE Return(i)
    /\ UNCHANGED <<tableExists, table, obj, last, resolved, evicted, calls,
                   budget, priv, writer>>

\* lines 63-64: the INSERT OR IGNORE takes the write lock and acts inside
\* the transaction; text that is no integer raises and the call ends
CInsert(i) ==
    /\ pc[i] = "insert"
    /\ writer = 0
    /\ IF IsIntText(cur[i].prof)
       THEN /\ writer' = i
            /\ priv' = [priv EXCEPT ![i] = InsertOrIgnore(table, ToInt(cur[i].prof))]
            /\ Goto(i, "inserted")
            /\ UNCHANGED <<cur, overlap>>
       ELSE /\ UNCHANGED <<writer, priv>>
            /\ Return(i)
    /\ table' = Committed(table, priv'[i])
    /\ UNCHANGED <<tableExists, obj, last, resolved, evicted, calls, budget>>

\* lines 63-64 while another connection holds the write lock: the INSERT
\* times out with "database is locked" and the call ends
CBusy(i) ==
    /\ pc[i] = "insert"
    /\ writer # 0
    /\ Return(i)
    /\ UNCHANGED <<tableExists, table, obj, last, resolved, evicted, calls,
                   budget, priv, writer>>

\* line 65: the UPDATE, inside the same transaction
CUpdate(i) ==
    /\ pc[i] = "inserted"
    /\ priv' = [priv EXCEPT ![i] = UpdateSid(priv[i], cur[i].sid, ToInt(cur[i].prof))]
    /\ Goto(i, "updated")
    /\ table' = Committed(table, priv'[i])
    /\ UNCHANGED <<tableExists, obj, last, resolved, evicted, calls, budget,
                   cur, writer, overlap>>

\* lines 66-69: conn.commit() publishes both statements and frees the lock
CCommit(i) ==
    /\ pc[i] = "updated"
    /\ table' = priv[i]
    /\ writer' = 0
    /\ priv' = [priv EXCEPT ![i] = <<>>]
    /\ Return(i)
    /\ UNCHANGED <<tableExists, obj, last, resolved, evicted, calls, budget>>

InitConc == Start(MaxConcCalls)

\* the two instances that run at once
Pair == {1, 2}

\* the answers they get: a failure, and bodies with no element, with id
\* 1, with id 2, and with text that is no integer
PairResps ==
    {NetworkError, Reading(<<>>)}
        \cup {Reading(OpenTag \o <<c>> \o CloseTag) : c \in {"1", "2", "x"}}

NextConc ==
    \/ \E i \in Pair, sid \in Sids : CLookup(i, sid)
    \/ \E i \in Pair, resp \in PairResps : CRequest(i, resp)
    \/ \E i \in Pair : CInsert(i)
    \/ \E i \in Pair : CBusy(i)
    \/ \E i \in Pair : CUpdate(i)
    \/ \E i \in Pair : CCommit(i)

\* some instance always gets to run its next statement
SpecConc == InitConc /\ [][NextConc]_vars /\ WF_vars(NextConc)

\* =================================================================== claims

\* the ids a legacy answer can put in the cache
CacheIds == {ToInt(r.prof) : r \in {q \in LegacyResps : IsIntText(q.prof)}}

\* the latest call resolved a non-numeric sid that an earlier call had
\* resolved successfully
ResolvedAgain == last.resolve /\ ~IsDigit(last.sid) /\ last.prior # -1

\* it returned the id of that earlier resolution and sent no legacy request
SameIdNoRequest ==
    /\ last.rexc = ""
    /\ last.ret.t # "none"
    /\ CanonOf(last.ret) = last.prior
    /\ last.legacy = 0

\* C1, as stated: once a non-numeric sid has been resolved successfully,
\* every later get_id64_from_sid call with that sid, on any instance and
\* whatever was resolved in between, returns the same id64 and sends no
\* legacy request.
C1_ResolvedStaysCached == ResolvedAgain => SameIdNoRequest

\* C1, amended: the same, as long as no other sid has since been resolved
\* through the legacy endpoint to that same id64 (which rewrites the row's
\* sid).  The id is compared as a number: the first call returns the XML
\* text, a cache hit returns the integer column.
C1_ResolvedStaysCachedUntilRelabelled ==
    (ResolvedAgain /\ ~last.priorEvicted) => SameIdNoRequest

\* a cache hit for a sid resolved earlier, with another id cached as well
C1_Witness ==
    /\ ResolvedAgain
    /\ ~last.priorEvicted
    /\ last.legacy = 0
    /\ last.ret = RetInt(last.prior)
    /\ Len(table) = 2

\* C2: a call with a numeric sid returns that sid unchanged, reads and
\* writes nothing in the store, sends no legacy request, and leaves the
\* store as it was.
C2_NumericPassThrough ==
    [][(calls' = calls + 1 /\ last'.resolve /\ IsDigit(last'.sid)) =>
          /\ last'.ret = RetStr(last'.sid)
          /\ last'.rexc = ""
          /\ last'.reads = 0
          /\ last'.writes = 0
          /\ last'.legacy = 0
          /\ table' = table
          /\ tableExists' = tableExists]_vars

\* a numeric sid resolved while the cache holds a row
C2_Witness ==
    /\ last.op = "get_id64_from_sid"
    /\ IsDigit(last.sid)
    /\ last.ret = RetStr(last.sid)
    /\ Len(table) > 0

\* C3: on any table the program reaches, the two-statement write done
\* twice with the same sid and id64 leaves what doing it once leaves, with
\* exactly one row for the id64, carrying the sid.
C3_StoreIdempotent ==
    \A sid \in Sids, id \in CacheIds :
        LET once == StoreRow(table, sid, id)
        IN /\ StoreRow(once, sid, id) = once
           /\ Cardinality({k \in 1..Len(once) : once[k].id64 = id}) = 1
           /\ \A k \in 1..Len(once) :
                once[k].id64 = id => once[k].hasSid /\ once[k].sid = sid

\* a write just made into a table that held a row already
C3_Witness == last.writes = 1 /\ Len(table) = 2

Unique(t) == \A j, k \in 1..Len(t) : j # k => t[j].id64 # t[k].id64

\* C9: the table never holds two rows with one id64; a row stays, with
\* its id64; a kept row changes only by getting a sid; and a call that
\* does not reach the write (a lookup, a construction on an existing
\* table) changes no row.
C9_RowsStable ==
    [][/\ Unique(table')
       /\ \A k \in 1..Len(table) : \E j \in 1..Len(table') :
            /\ table'[j].id64 = table[k].id64
            /\ table'[j] = table[k] \/ table'[j].hasSid
       /\ (last'.writes = 0 \/ last'.op = "init") => table' = table]_vars

\* a write that gave an existing row another sid
C9_Witness == last.writes = 1 /\ evicted # {} /\ Unique(table) /\ Len(table) > 0

\* C4, as stated: on an instance made with no sid on which neither
\* get_summary nor load_summary_file has run, every accessor raises
\* ProfileError("No summary").
C4_UnloadedRaisesNoSummary ==
    (last.op = "accessor" /\ ~last.touchedBefore) =>
        last.out = Raise("ProfileError", "No summary")

\* C5, as stated: a loaded instance stays loaded; a get_summary call that
\* raises leaves the instance as it was; a get_summary or
\* load_summary_file call that succeeds leaves it holding the summary the
\* call produced.  (A construction makes a new instance and is left out.)
C5_HeldSummaryFollowsSuccess ==
    [][(calls' = calls + 1 /\ last'.op \notin {"init", "init_sid"}) =>
          /\ \A j \in Inst : obj[j].loaded => obj'[j].loaded
          /\ \A j \in Inst : j # last'.inst =>
                obj'[j].loaded = obj[j].loaded /\ obj'[j].summary = obj[j].summary
          /\ (last'.op = "get_summary" /\ last'.exc # "") =>
                /\ obj'[last'.inst].loaded = obj[last'.inst].loaded
                /\ obj'[last'.inst].summary = obj[last'.inst].summary
          /\ (last'.op \in {"get_summary", "load_summary_file"} /\ last'.exc = "") =>
                /\ obj'[last'.inst].loaded
                /\ obj'[last'.inst].summary = last'.given]_vars

\* C6, as stated: when a non-numeric sid misses the cache and the legacy
\* body has no <steamID64> element, get_id64_from_sid ends in a
\* ResolutionError, the cache is not written, and get_summary passes the
\* error on without sending a summary request.
C6_MissingElementRaises ==
    (last.resolve /\ last.gotBody /\ ~last.elem) =>
        /\ last.rexc = "ResolutionError"
        /\ last.writes = 0
        /\ last.op \in {"get_summary", "init_sid"} =>
             last.exc = "ResolutionError" /\ ~last.sumMade

\* C7, as stated: get_summary raises ProfileError("Profile not found")
\* whenever response.players.player[0] is absent (a key of the path
\* missing, the list empty) or empty.
C7_AbsentOrEmptyIsNotFound ==
    (last.op \in {"get_summary", "init_sid"} /\ last.player \in {"absent", "empty"}) =>
        last.exc = "ProfileError" /\ last.msg = "Profile not found"

\* the name the visibility value v maps to, or v itself
VisibilityOf(v) ==
    IF EqInt(v, 1) THEN VStr("private")
    ELSE IF EqInt(v, 2) THEN VStr("friends")
    ELSE IF EqInt(v, 3) THEN VStr("public")
    ELSE v

NullRowCommitted == \E k \in 1..Len(table) : ~table[k].hasSid

====
